---- MODULE Spec2Model ----
(***************************************************************************)
(* Model of the unit-test generator (src/main.go): the orchestrator loop   *)
(* of main, the generation client generateUnitTests with its output        *)
(* validator, and the sandbox compiler/runner runTestsAndCoverage with its *)
(* coverage gate.                                                          *)
(*                                                                         *)
(* Text is a sequence of tokens.  A token is an atomic group of            *)
(* characters: every pattern the program searches for (an include line,    *)
(* "TEST", "(", ")", "{", "}", ",", a method name, the code fence, white   *)
(* space) is a token or a sequence of tokens, and no other token contains  *)
(* one of these patterns, so substring search on the characters is         *)
(* sub-sequence search on the tokens.  The byte length of a text is the    *)
(* sum of the byte lengths of its tokens.                                  *)
(***************************************************************************)
EXTENDS Integers, Sequences, FiniteSets, TLC

VARIABLES
    pc,              \* position of the single thread of main
    startErr,        \* main: the error that made log.Fatalf end the run
    fs,              \* the .h/.cpp paths that exist under ./codebase
    todo,            \* keys of the files map not yet ranged over
    cur,             \* filePath of the current loop iteration
    unitState,       \* per path: how its iteration ended
    clientCalls,     \* per path: calls of generateUnitTests made for it
    outFiles,        \* ./tests: the files written, path -> content
    listing,         \* generateUnitTests: resp.Models, the names client.List gave
    availableModels, \* generateUnitTests: the backends to try, in order
    req,             \* generateUnitTests: the api.GenerateRequest
    debugWrite,      \* generateUnitTests: the os.WriteFile call of line 127 made
                     \* by the latest attempt
    mi,              \* generateUnitTests: index of currentModel
    attempt,         \* generateUnitTests: attempt of the inner loop
    genCalls,        \* client.Generate calls issued by the current client call
    raw,             \* generateUnitTests: result.String() of the attempt
    output,          \* generateUnitTests: normalized output of the attempt
    verdict,         \* validation result of the latest attempt
    tests,           \* main: text returned by generateUnitTests
    genErr,          \* main: error returned by generateUnitTests
    dirs,            \* temporary directories that exist
    tempDir,         \* runTestsAndCoverage: the directory it allocated
    steps,           \* runTestsAndCoverage: subprocesses that exited with 0
    gcovOut,         \* runTestsAndCoverage: the coverage tool's report
    passed,          \* runTestsAndCoverage: first result
    coverage,        \* runTestsAndCoverage: second result
    sbErr            \* runTestsAndCoverage: third result (error)

vars == <<pc, startErr, fs, todo, cur, unitState, clientCalls, outFiles, listing,
          availableModels, req, debugWrite, mi, attempt, genCalls, raw, output, verdict,
          tests, genErr, dirs, tempDir, steps, gcovOut, passed, coverage, sbErr>>

mainVars == <<startErr, fs, todo, cur, unitState, clientCalls, outFiles>>
genVars  == <<listing, availableModels, req, debugWrite, mi, attempt, genCalls, raw, output,
              verdict, tests, genErr>>
sbVars   == <<dirs, tempDir, steps, gcovOut, passed, coverage, sbErr>>

None == "none"

(***************************************************************************)
(* Bounds of the model.                                                    *)
(***************************************************************************)
MaxUnits  == 2   \* .h and .cpp files under ./codebase
MaxAlt    == 1   \* backends other than the primary that the listing may name
MaxTests  == 4   \* TEST blocks per method in a text of the validator's corpus
MaxPctLen == 5   \* characters of the percentage in a coverage report

(***************************************************************************)
(* Program constants.                                                      *)
(***************************************************************************)
MaxAttempts    == 3     \* attempt <= 3
MinOutputLen   == 250   \* len(output) < 250
RequiredTests  == 4     \* testCount != 4
CoverageThresh == 80    \* coverage < 80.0

(***************************************************************************)
(* Tokens.                                                                 *)
(***************************************************************************)
NL    == "\n"
SP    == " "
IND   == "    "
FENCE == "<3 backticks>"
CPP   == "cpp"

IncGtest     == "#include <gtest/gtest.h>"
IncCmath     == "#include <cmath>"
IncStdexcept == "#include <stdexcept>"
IncExample   == "#include \"example.h\""

\* methods := []string{"add", "subtract"}
methods == <<"add", "subtract">>

\* byte length of a token (the fence is three one-byte characters)
TokLen(t) == IF t = FENCE THEN 3 ELSE Len(t)

\* unicode.IsSpace / the regexp class \s, on the tokens of the model
IsSpace(t) == t \in {NL, SP, IND}

RECURSIVE ByteLenOf(_, _, _)
\* the bytes of the tokens lo..hi of s
ByteLenOf(s, lo, hi) ==
    IF lo > hi THEN 0
    ELSE IF lo = hi THEN TokLen(s[lo])
    ELSE LET mid == (lo + hi) \div 2
         IN  ByteLenOf(s, lo, mid) + ByteLenOf(s, mid + 1, hi)

\* len(output)
ByteLen(s) == ByteLenOf(s, 1, Len(s))

\* strings.HasPrefix / strings.HasSuffix
HasPrefix(s, p) == Len(s) >= Len(p) /\ SubSeq(s, 1, Len(p)) = p
HasSuffix(s, p) == Len(s) >= Len(p) /\ SubSeq(s, Len(s) - Len(p) + 1, Len(s)) = p

\* strings.TrimPrefix / strings.TrimSuffix
TrimPrefix(s, p) == IF HasPrefix(s, p) THEN SubSeq(s, Len(p) + 1, Len(s)) ELSE s
TrimSuffix(s, p) == IF HasSuffix(s, p) THEN SubSeq(s, 1, Len(s) - Len(p)) ELSE s

\* strings.TrimSpace
TrimSpace(s) ==
    LET keep == {i \in 1..Len(s) : ~IsSpace(s[i])}
    IN  IF keep = {} THEN <<>>
        ELSE LET lo == CHOOSE i \in keep : \A j \in keep : i <= j
                 hi == CHOOSE i \in keep : \A j \in keep : j <= i
             IN  SubSeq(s, lo, hi)

\* positions at which pattern p occurs in s
Occurrences(s, p) == {i \in 1..(Len(s) - Len(p) + 1) : SubSeq(s, i, i + Len(p) - 1) = p}

\* strings.Contains
Contains(s, p) == Occurrences(s, p) # {}

\* lines 122-124: the normalization of a raw response
Normalize(text) ==
    TrimSpace(TrimSuffix(TrimPrefix(text, <<FENCE, CPP, NL>>), <<NL, FENCE>>))

(***************************************************************************)
(* The output validator: lines 131-189 of generateUnitTests.               *)
(***************************************************************************)
\* line 156: regexp `TEST\([^)]+\)\s*{[^}]*$` matches somewhere in s
IncompleteTest(s) ==
    \E i \in Occurrences(s, <<"TEST", "(">>) :
        \E j \in (i + 3)..Len(s) :
            /\ s[j] = ")"
            /\ \A k \in (i + 2)..(j - 1) : s[k] # ")"
            /\ \E m \in (j + 1)..Len(s) :
                   /\ s[m] = "{"
                   /\ \A k \in (j + 1)..(m - 1) : IsSpace(s[k])
                   /\ \A k \in (m + 1)..Len(s) : s[k] # "}"

\* line 163: number of matches of `TEST\(CalculatorTest,`
TestCount(s) == Cardinality(Occurrences(s, <<"TEST", "(", "CalculatorTest", ",">>))

\* lines 168-173: the methods with no occurrence of method + "("
MissingMethods(s) == {k \in 1..Len(methods) : ~Contains(s, <<methods[k], "(">>)}

\* lines 178-185: '{' counts +1, '}' counts -1
BraceCount(s) ==
    Cardinality({i \in 1..Len(s) : s[i] = "{"}) - Cardinality({i \in 1..Len(s) : s[i] = "}"})

\* Validate without the brace balance check of lines 178-189
Validate_NoBraceCheck(out) ==
    IF ByteLen(out) < MinOutputLen THEN "too-short"
    ELSE IF ~Contains(out, <<IncGtest>>) THEN "missing-include-gtest"
    ELSE IF ~Contains(out, <<IncCmath>>) THEN "missing-include-cmath"
    ELSE IF ~Contains(out, <<IncStdexcept>>) THEN "missing-include-stdexcept"
    ELSE IF ~Contains(out, <<IncExample>>) THEN "missing-include-example"
    ELSE IF ~Contains(out, <<"TEST">>) THEN "missing-TEST-macro"
    ELSE IF IncompleteTest(out) THEN "incomplete-macro-body"
    ELSE IF TestCount(out) # RequiredTests THEN "wrong-test-count"
    ELSE IF MissingMethods(out) # {} THEN "missing-symbol"
    ELSE "accepted"

\* Validate without the check of lines 148-151 for the include of example.h
Validate_NoExampleInclude(out) ==
    IF ByteLen(out) < MinOutputLen THEN "too-short"
    ELSE IF ~Contains(out, <<IncGtest>>) THEN "missing-include-gtest"
    ELSE IF ~Contains(out, <<IncCmath>>) THEN "missing-include-cmath"
    ELSE IF ~Contains(out, <<IncStdexcept>>) THEN "missing-include-stdexcept"
    ELSE IF ~Contains(out, <<"TEST">>) THEN "missing-TEST-macro"
    ELSE IF IncompleteTest(out) THEN "incomplete-macro-body"
    ELSE IF TestCount(out) # RequiredTests THEN "wrong-test-count"
    ELSE IF MissingMethods(out) # {} THEN "missing-symbol"
    ELSE IF BraceCount(out) # 0 THEN "unbalanced-braces"
    ELSE "accepted"

\* Validate with the test count checked before the incomplete-body pattern
Validate_CountBeforeBody(out) ==
    IF ByteLen(out) < MinOutputLen THEN "too-short"
    ELSE IF ~Contains(out, <<IncGtest>>) THEN "missing-include-gtest"
    ELSE IF ~Contains(out, <<IncCmath>>) THEN "missing-include-cmath"
    ELSE IF ~Contains(out, <<IncStdexcept>>) THEN "missing-include-stdexcept"
    ELSE IF ~Contains(out, <<IncExample>>) THEN "missing-include-example"
    ELSE IF ~Contains(out, <<"TEST">>) THEN "missing-TEST-macro"
    ELSE IF TestCount(out) # RequiredTests THEN "wrong-test-count"
    ELSE IF IncompleteTest(out) THEN "incomplete-macro-body"
    ELSE IF MissingMethods(out) # {} THEN "missing-symbol"
    ELSE IF BraceCount(out) # 0 THEN "unbalanced-braces"
    ELSE "accepted"

\* lines 132-192: the reason of the first check that fails, or "accepted"
Validate(out) ==
    IF ByteLen(out) < MinOutputLen THEN "too-short"
    ELSE IF ~Contains(out, <<IncGtest>>) THEN "missing-include-gtest"
    ELSE IF ~Contains(out, <<IncCmath>>) THEN "missing-include-cmath"
    ELSE IF ~Contains(out, <<IncStdexcept>>) THEN "missing-include-stdexcept"
    ELSE IF ~Contains(out, <<IncExample>>) THEN "missing-include-example"
    ELSE IF ~Contains(out, <<"TEST">>) THEN "missing-TEST-macro"
    ELSE IF IncompleteTest(out) THEN "incomplete-macro-body"
    ELSE IF TestCount(out) # RequiredTests THEN "wrong-test-count"
    ELSE IF MissingMethods(out) # {} THEN "missing-symbol"
    ELSE IF BraceCount(out) # 0 THEN "unbalanced-braces"
    ELSE "accepted"

(***************************************************************************)
(* Generated texts: what a backend may answer.                             *)
(***************************************************************************)
Includes == <<IncGtest, IncCmath, IncStdexcept, IncExample>>

RECURSIVE IncludeLines(_, _)
\* the include lines whose index is in mask, in order, from index k on
IncludeLines(mask, k) ==
    IF k > Len(Includes) THEN <<>>
    ELSE (IF k \in mask THEN <<Includes[k], NL>> ELSE <<>>) \o IncludeLines(mask, k + 1)

\* one TEST block of suite `suite` calling `method`, laid out as in the
\* prompt's example (long) or on one line with nothing to spare
TestHeader(suite, method, long) ==
    IF long
    THEN <<"TEST", "(", suite, ",", SP, "Case_" \o method, ")", SP, "{", NL>>
    ELSE <<"TEST", "(", suite, ",", "T", ")", "{">>
TestBody(method, long) ==
    IF long
    THEN <<IND, "Calculator calc;", NL, IND, "EXPECT_EQ", "(", "calc.", method, "(",
           "2, 3", ")", ",", SP, "5", ")", ";", NL>>
    ELSE <<method, "(", ")", ";">>
TestBlock(suite, method, long) ==
    TestHeader(suite, method, long) \o TestBody(method, long)
    \o (IF long THEN <<"}", NL>> ELSE <<"}">>)

RECURSIVE Repeat(_, _)
Repeat(s, n) == IF n = 0 THEN <<>> ELSE s \o Repeat(s, n - 1)

\* a comment line of 40 bytes, used as padding
PadLine == <<"// generated tests for class Calculator", NL>>

Tails == {"none", "extra-close", "open-early", "truncated", "close-early-truncated", "calls"}

\* a generated text: the includes of mask, nAdd + nSub blocks of suite
\* CalculatorTest and nOther blocks of another suite; the tail adds a stray
\* brace, a last block cut before its closing brace, or calls outside a test
GenText(mask, nAdd, nSub, nOther, long, pad, tail) ==
    IncludeLines(mask, 1)
    \o (IF pad THEN Repeat(PadLine, 7) ELSE <<>>)
    \o (CASE tail = "open-early" -> <<"{", NL>>
          [] tail = "close-early-truncated" -> <<"}", NL>>
          [] OTHER -> <<>>)
    \o Repeat(TestBlock("CalculatorTest", "add", long), nAdd)
    \o Repeat(TestBlock("CalculatorTest", "subtract", long), nSub)
    \o Repeat(TestBlock("OtherTest", "add", long), nOther)
    \o (CASE tail = "extra-close" -> <<"}">>
          [] tail \in {"truncated", "close-early-truncated"} ->
                TestHeader("CalculatorTest", "subtract", long) \o TestBody("subtract", long)
          [] tail = "calls" -> <<"add", "(", ")", ";", NL, "subtract", "(", ")", ";">>
          [] OTHER -> <<>>)

\* the texts of the validator's corpus
GrammarTexts ==
    {GenText(mask, a, b, c, long, pad, tail) :
        mask \in SUBSET (1..Len(Includes)),
        a \in 0..MaxTests, b \in 0..MaxTests, c \in 0..1,
        long \in BOOLEAN, pad \in BOOLEAN, tail \in Tails}

\* the reference text: four includes, two add and two subtract tests
GoodText == GenText(1..Len(Includes), 2, 2, 0, TRUE, FALSE, "none")

\* GoodText with one token removed
DropToken(s, i) == SubSeq(s, 1, i - 1) \o SubSeq(s, i + 1, Len(s))
DroppedTexts == {DropToken(GoodText, i) : i \in 1..Len(GoodText)}

\* the normalized outputs the validator is checked on
Corpus == {Normalize(t) : t \in GrammarTexts \cup DroppedTexts}

\* the raw responses of the backend in the pipeline: the reference text inside
\* a code fence, a second valid text, and an answer that is no test file
FencedGood == <<FENCE, CPP, NL>> \o GoodText \o <<NL, FENCE>>
PaddedGood == <<NL>> \o GenText(1..Len(Includes), 2, 2, 0, TRUE, TRUE, "none")
Apology    == <<"I cannot generate tests for this code.">>
Responses  == {FencedGood, PaddedGood, Apology}

(***************************************************************************)
(* The coverage gate: lines 276-292 of runTestsAndCoverage.                *)
(* A report is a sequence of tokens: "Lines executed:", "% of ", one token *)
(* per digit and per dot, and other text.                                  *)
(***************************************************************************)
Digits   == {"0", "1", "2", "3", "4", "5", "6", "7", "8", "9"}
DigitVal(c) ==
    CASE c = "0" -> 0 [] c = "1" -> 1 [] c = "2" -> 2 [] c = "3" -> 3 [] c = "4" -> 4
      [] c = "5" -> 5 [] c = "6" -> 6 [] c = "7" -> 7 [] c = "8" -> 8 [] c = "9" -> 9

\* the end of the longest run of digits and dots that starts at position i
RECURSIVE RunEnd(_, _)
RunEnd(s, i) ==
    IF i <= Len(s) /\ s[i] \in Digits \cup {"."} THEN RunEnd(s, i + 1) ELSE i - 1

\* line 276: `Lines executed:([\d.]+)% of (\d+)` matches at position i
MatchesAt(s, i) ==
    /\ s[i] = "Lines executed:"
    /\ RunEnd(s, i + 1) >= i + 1
    /\ RunEnd(s, i + 1) + 2 <= Len(s)
    /\ s[RunEnd(s, i + 1) + 1] = "% of "
    /\ s[RunEnd(s, i + 1) + 2] \in Digits

\* line 277: FindStringSubmatch; the first group of the leftmost match, or
\* the empty sequence when nothing matches (len(matches) < 2)
FindPercent(s) ==
    LET at == {i \in 1..Len(s) : MatchesAt(s, i)}
    IN  IF at = {} THEN <<>>
        ELSE LET i == CHOOSE k \in at : \A j \in at : k <= j
             IN  SubSeq(s, i + 1, RunEnd(s, i + 1))

RECURSIVE Pow10(_)
Pow10(n) == IF n = 0 THEN 1 ELSE 10 * Pow10(n - 1)

RECURSIVE DecValOf(_, _)
\* the number the first n digits of d denote
DecValOf(d, n) == IF n = 0 THEN 0 ELSE 10 * DecValOf(d, n - 1) + DigitVal(d[n])

\* the number a sequence of digits denotes
DecVal(d) == DecValOf(d, Len(d))

\* line 281: strconv.ParseFloat of digits and dots: the exact value num/den.
\* (Below 16 significant digits the float64 result compares with 80 as the
\* decimal does.)
ParseFloat(p) ==
    LET dots == {i \in 1..Len(p) : p[i] = "."}
    IN  IF Cardinality(dots) > 1 \/ Len(p) - Cardinality(dots) = 0
        THEN [ok |-> FALSE, num |-> 0, den |-> 1]
        ELSE LET d    == IF dots = {} THEN Len(p) + 1 ELSE CHOOSE i \in dots : TRUE
                 int  == SubSeq(p, 1, d - 1)
                 frac == SubSeq(p, d + 1, Len(p))
             IN  [ok  |-> TRUE,
                  num |-> DecVal(int) * Pow10(Len(frac)) + DecVal(frac),
                  den |-> Pow10(Len(frac))]

Zero == [num |-> 0, den |-> 1]

\* a failure of the coverage tool reported as tests that did not pass
RanBeforeToolError_False == FALSE

\* lines 272, 279, 283: the first result when the coverage tool or the parsing
\* of its report failed: the tests had run and passed
RanBeforeToolError == TRUE

\* the threshold taken as exclusive: coverage <= 80.0
BelowThreshold_Exclusive(c) == c.num <= CoverageThresh * c.den

\* coverage < 80.0
BelowThreshold(c) == c.num < CoverageThresh * c.den

\* a report without the pattern taken as a coverage of 0
GateResult_AbsentAsZero(p) ==
    IF p = <<>> \/ ~ParseFloat(p).ok
    THEN [passed |-> FALSE, coverage |-> Zero, err |-> "below-threshold"]
    ELSE IF BelowThreshold([num |-> ParseFloat(p).num, den |-> ParseFloat(p).den])
    THEN [passed |-> FALSE,
          coverage |-> [num |-> ParseFloat(p).num, den |-> ParseFloat(p).den],
          err |-> "below-threshold"]
    ELSE [passed |-> TRUE,
          coverage |-> [num |-> ParseFloat(p).num, den |-> ParseFloat(p).den],
          err |-> None]

\* lines 278-292: (passed, coverage, err) from matches[1], or from no match
GateResult(p) ==
    LET f == ParseFloat(p)
        c == [num |-> f.num, den |-> f.den]
    IN  IF p = <<>>
        THEN [passed |-> RanBeforeToolError, coverage |-> Zero, err |-> "gcov-parse"]
        ELSE IF ~f.ok
        THEN [passed |-> RanBeforeToolError, coverage |-> Zero, err |-> "percent-parse"]
        ELSE IF BelowThreshold(c) THEN [passed |-> FALSE, coverage |-> c, err |-> "below-threshold"]
        ELSE [passed |-> TRUE, coverage |-> c, err |-> None]

\* lines 276-292: (passed, coverage, err) from the coverage tool's report
\* (the match is computed once and handed on as a value)
CoverageGate(report) == CHOOSE g \in {GateResult(p) : p \in {FindPercent(report)}} : TRUE

\* a report of the coverage tool for one file
Report(pct) == <<"File 'example.cpp'", NL, "Lines executed:">> \o pct \o <<"% of ", "1", "2", NL>>

\* the reports the coverage tool gives in the pipeline
PipelineReports ==
    {Report(<<"7", "9", ".", "9", "9">>), Report(<<"8", "0", ".", "0", "0">>),
     <<"example.gcda:cannot open data file", NL>>}

(***************************************************************************)
(* Paths, backends and directories.                                        *)
(***************************************************************************)
Bases     == {"calc", "util"}
\* a path under ./codebase, as its tokens: directory names and "/", then the
\* base name and the extension.  PlainPaths lie in ./codebase itself;
\* DottedPaths lie in a sub-directory whose name is an extension (".h/", ".cpp/")
PlainPaths  == {<<b, e>> : b \in Bases, e \in {".h", ".cpp"}}
DottedPaths == {<<".h", "/", "calc", ".h">>, <<".h", "/", "calc", ".cpp">>,
                <<".cpp", "/", "calc", ".h">>}
Paths     == PlainPaths \cup DottedPaths
NoPath    == <<>>

\* strings.Replace(s, old, new, 1)
ReplaceFirst(s, old, new) ==
    LET at == {i \in 1..Len(s) : s[i] = old}
    IN  IF at = {} THEN s
        ELSE LET i == CHOOSE k \in at : \A j \in at : k <= j
             IN  [s EXCEPT ![i] = new]

\* strings.HasSuffix(path, ext)
HasExt(path, ext) == Len(path) > 0 /\ path[Len(path)] = ext

\* filepath.Base(path): what follows the last separator
Base(path) ==
    LET seps == {i \in 1..Len(path) : path[i] = "/"}
    IN  IF seps = {} THEN path
        ELSE SubSeq(path, (CHOOSE k \in seps : \A j \in seps : k >= j) + 1, Len(path))

\* lines 348-360: the file whose absence makes main skip filePath
Companion(path) ==
    IF HasExt(path, ".h") THEN ReplaceFirst(path, ".h", ".cpp")
    ELSE IF HasExt(path, ".cpp") THEN ReplaceFirst(path, ".cpp", ".h")
    ELSE path

\* lines 369-372: the source file the tests are compiled with
SourceFile(path) == IF HasExt(path, ".h") THEN ReplaceFirst(path, ".h", ".cpp") ELSE path

\* lines 386-390: the output path of a unit, under ./tests
TestFile(path) ==
    IF HasExt(Base(path), ".h") THEN ReplaceFirst(Base(path), ".h", "_test.cpp")
    ELSE ReplaceFirst(Base(path), ".cpp", "_test.cpp")

OutPaths == {TestFile(p) : p \in Paths}

\* line 362: the primary backend; the other backends a listing may name
Primary   == "qwen2.5-coder:7b"
ModelPool == <<"llama3:8b", "mistral:7b", "phi3:mini">>
AltModels == {ModelPool[i] : i \in 1..MaxAlt}

RECURSIVE Perms(_)
\* the sequences that list every element of S once
Perms(S) ==
    IF S = {} THEN {<<>>}
    ELSE UNION {{<<x>> \o q : q \in Perms(S \ {x})} : x \in S}

\* what client.List may answer: some of the backends, each once, in any order
Listings == UNION {Perms(S) : S \in SUBSET ({Primary} \cup AltModels)}

\* the listing appended as it is, the primary included
Others_All(names, model) == names

RECURSIVE Others(_, _)
\* lines 56-60: the listed names other than model, in listing order
Others(names, model) ==
    IF names = <<>> THEN <<>>
    ELSE (IF Head(names) # model THEN <<Head(names)>> ELSE <<>>)
         \o Others(Tail(names), model)

\* lines 55-60
AvailableModels(names, model) == <<model>> \o Others(names, model)

\* line 204: the names os.MkdirTemp may pick
TempDirs == {"unit-test-generator-1", "unit-test-generator-2"}
NoDir    == ""

\* files[filePath]: the text of a source file
Content(path) == <<"content of">> \o path

\* lines 67-91: the prompt: the fixed instructions, the code, the closing line
Prompt(code) == <<"instructions", "**Code to test:**">> \o code \o <<"closing line">>

\* lines 97-100
Options == [num_ctx |-> 131072, num_predict |-> 1024]

\* lines 94-101
Request(model, code) == [Model |-> model, Prompt |-> Prompt(code), Options |-> Options]
NoRequest == [Model |-> "", Prompt |-> <<>>, Options |-> [num_ctx |-> 0, num_predict |-> 0]]

\* lines 121-124 and 131-192 applied to each answer of the backend
Normalized == [r \in Responses |-> Normalize(r)]
Verdict    == [r \in Responses |-> Validate(Normalize(r))]

\* a debug file named after the backend alone
ArtifactName_ModelOnly(model, a) == <<"raw_response_", model, "_attempt_", 1, ".txt">>

\* line 127: fmt.Sprintf("raw_response_%s_attempt_%d.txt", currentModel, attempt)
ArtifactName(model, a) == <<"raw_response_", model, "_attempt_", a, ".txt">>

\* line 127: the call os.WriteFile(name, data); its failure is only logged
WriteCall(name, data) == [name |-> name, data |-> data]
NoWrite == [name |-> <<>>, data |-> <<>>]

(***************************************************************************)
(* Initial state: the process has started, nothing is read yet.            *)
(***************************************************************************)
GenReset ==
    /\ listing = <<>>
    /\ availableModels = <<>>
    /\ req = NoRequest
    /\ debugWrite = NoWrite
    /\ mi = 0
    /\ attempt = 0
    /\ genCalls = 0
    /\ raw = <<>>
    /\ output = <<>>
    /\ verdict = None
    /\ tests = <<>>
    /\ genErr = None

SbReset ==
    /\ tempDir = NoDir
    /\ steps = {}
    /\ gcovOut = <<>>
    /\ passed = FALSE
    /\ coverage = Zero
    /\ sbErr = None

Init ==
    /\ pc = "start"
    /\ startErr = None
    /\ fs \in {S \in SUBSET Paths : Cardinality(S) <= MaxUnits}
    /\ todo = {}
    /\ cur = NoPath
    /\ unitState = [p \in Paths |-> "Undiscovered"]
    /\ clientCalls = [p \in Paths |-> 0]
    /\ outFiles = <<>>
    /\ dirs = {}
    /\ GenReset
    /\ SbReset

(***************************************************************************)
(* main, lines 303-340: startup.  Each failure is a log.Fatalf.            *)
(***************************************************************************)
\* a startup error that is logged and lets main go on
AfterStartupError_GoesOn(next) == next

\* lines 325, 333, 338: log.Fatalf ends the process
AfterStartupError(next) == "fatal"

\* lines 323-326: client.List against the server
Connect ==
    /\ pc = "start"
    /\ \/ /\ pc' = "read"
          /\ UNCHANGED startErr
       \/ /\ startErr' = "connect"
          /\ pc' = AfterStartupError("read")
    /\ UNCHANGED <<fs, todo, cur, unitState, clientCalls, outFiles, genVars, sbVars>>

\* lines 330-334: readCodebase fills the files map, or fails
ReadCodebase ==
    /\ pc = "read"
    /\ \E ok \in BOOLEAN :
          IF ok
          THEN /\ pc' = "mkdir"
               /\ UNCHANGED startErr
               /\ todo' = fs
               /\ unitState' = [p \in Paths |-> IF p \in fs THEN "Discovered" ELSE unitState[p]]
          ELSE /\ startErr' = "read"
               /\ pc' = "fatal"
               /\ UNCHANGED <<todo, unitState>>
    /\ UNCHANGED <<fs, cur, clientCalls, outFiles, genVars, sbVars>>

\* lines 337-339: os.MkdirAll("./tests")
MkdirTests ==
    /\ pc = "mkdir"
    /\ \/ /\ pc' = "loop"
          /\ UNCHANGED startErr
       \/ /\ startErr' = "mkdir"
          /\ pc' = AfterStartupError("loop")
    /\ UNCHANGED <<fs, todo, cur, unitState, clientCalls, outFiles, genVars, sbVars>>

(***************************************************************************)
(* main, lines 343-399: the loop over the files map.                       *)
(***************************************************************************)
\* the locals of one iteration go out of scope
EndIteration(state) ==
    /\ unitState' = [unitState EXCEPT ![cur] = state]
    /\ cur' = NoPath
    /\ listing' = <<>>
    /\ availableModels' = <<>>
    /\ req' = NoRequest
    /\ debugWrite' = NoWrite
    /\ mi' = 0
    /\ attempt' = 0
    /\ genCalls' = 0
    /\ raw' = <<>>
    /\ output' = <<>>
    /\ verdict' = None
    /\ tests' = <<>>
    /\ genErr' = None
    /\ tempDir' = NoDir
    /\ steps' = {}
    /\ gcovOut' = <<>>
    /\ passed' = FALSE
    /\ coverage' = Zero
    /\ sbErr' = None

\* a range that does not consume the key it hands out
Remaining_Keep(keys, u) == keys

\* line 343: range hands out every key of the map once
Remaining(keys, u) == keys \ {u}

\* line 343: range takes the next key, in no particular order
NextUnit ==
    /\ pc = "loop"
    /\ todo # {}
    /\ \E u \in todo :
          /\ cur' = u
          /\ todo' = Remaining(todo, u)
    /\ pc' = "pairing"
    /\ UNCHANGED <<startErr, fs, unitState, clientCalls, outFiles, genVars, sbVars>>

\* line 400: the range is over
Finish ==
    /\ pc = "loop"
    /\ todo = {}
    /\ pc' = "done"
    /\ UNCHANGED <<mainVars, genVars, sbVars>>

\* lines 348-360: os.Stat of the companion file reports that it does not exist
CompanionMissing(path) == Companion(path) \notin fs

\* lines 347-362: skip a unit without its companion, else call generateUnitTests
PairingCheck ==
    /\ pc = "pairing"
    /\ IF CompanionMissing(cur)
       THEN /\ pc' = "loop"
            /\ EndIteration("Skipped")
            /\ UNCHANGED <<clientCalls, dirs>>
       ELSE /\ pc' = "gen_list"
            /\ clientCalls' = [clientCalls EXCEPT ![cur] = @ + 1]
            /\ UNCHANGED <<unitState, cur, genVars, sbVars>>
    /\ UNCHANGED <<startErr, fs, todo, outFiles>>

(***************************************************************************)
(* generateUnitTests, lines 48-197.                                        *)
(***************************************************************************)
\* lines 50-61: client.List; its failure is returned to main
ListModels ==
    /\ pc = "gen_list"
    /\ \/ /\ genErr' = "list-failed"
          /\ pc' = "gen_ret"
          /\ UNCHANGED <<listing, availableModels, req, mi, attempt>>
       \/ \E l \in Listings :
             /\ listing' = l
             /\ availableModels' = AvailableModels(l, Primary)
             /\ req' = Request(Primary, Content(cur))
             /\ mi' = 1
             /\ attempt' = 1
             /\ pc' = "gen_attempt"
             /\ UNCHANGED genErr
    /\ UNCHANGED <<mainVars, debugWrite, genCalls, raw, output, verdict, tests, sbVars>>

\* a request whose prompt is extended when the backend is changed
WithModel_Reprompted(r, m) ==
    [Model |-> m, Prompt |-> r.Prompt \o <<"the previous answers were rejected">>,
     Options |-> r.Options]

\* line 104: req.Model = currentModel
WithModel(r, m) == [r EXCEPT !.Model = m]

\* the loop condition taken as attempt <= 4
LastAttempt_OneMore(a) == a + 1 > MaxAttempts + 1

\* line 107: attempt <= 3 fails after the increment
LastAttempt(a) == a + 1 > MaxAttempts

\* line 103: the range over availableModels is over
LastModel(m) == m + 1 > Len(availableModels)

\* `continue` at lines 119, 134, ..., 188: the attempt's output goes out of
\* scope; the next attempt, the next backend, or lines 195-196 when there is none
Continue ==
    /\ raw' = <<>>
    /\ output' = <<>>
    /\ IF ~LastAttempt(attempt)
       THEN /\ attempt' = attempt + 1
            /\ UNCHANGED <<mi, req, genErr, pc>>
       ELSE IF ~LastModel(mi)
       THEN /\ mi' = mi + 1
            /\ req' = WithModel(req, availableModels[mi + 1])
            /\ attempt' = 1
            /\ UNCHANGED <<genErr, pc>>
       ELSE /\ genErr' = "exhausted"
            /\ pc' = "gen_ret"
            /\ UNCHANGED <<mi, req, attempt>>

\* an accepted attempt that does not return: the loop goes on
ReturnsOutput_Never(v) == FALSE

\* lines 191-192: the attempt whose output passed every check returns it
ReturnsOutput(v) == v = "accepted"

\* lines 107-193: one attempt: client.Generate, then normalization and
\* validation of its answer
Attempt ==
    /\ pc = "gen_attempt"
    /\ genCalls' = genCalls + 1
    /\ \/ /\ verdict' = "error"
          /\ debugWrite' = NoWrite
          /\ Continue
          /\ UNCHANGED tests
       \/ \E r \in Responses :
             /\ debugWrite' = WriteCall(ArtifactName(req.Model, attempt), Normalized[r])
             /\ verdict' = Verdict[r]
             /\ IF ReturnsOutput(Verdict[r])
                THEN /\ raw' = r
                     /\ output' = Normalized[r]
                     /\ tests' = Normalized[r]
                     /\ pc' = "gen_ret"
                     /\ UNCHANGED <<mi, req, attempt, genErr>>
                ELSE /\ Continue
                     /\ UNCHANGED tests
    /\ UNCHANGED <<mainVars, listing, availableModels, sbVars>>

\* a failed generation that ends the run, as log.Fatalf would
AfterGenError_Fatal == "fatal"

\* line 365 (`continue`): where main goes on after a failed generation
AfterGenError == "loop"

\* lines 362-375: main receives (tests, err) from generateUnitTests, whose
\* locals go out of scope
GenReturn ==
    /\ pc = "gen_ret"
    /\ IF genErr # None
       THEN /\ pc' = AfterGenError
            /\ EndIteration("Failed")
            /\ UNCHANGED dirs
       ELSE /\ pc' = "sb_mkdtemp"
            /\ listing' = <<>>
            /\ availableModels' = <<>>
            /\ req' = NoRequest
            /\ debugWrite' = NoWrite
            /\ mi' = 0
            /\ attempt' = 0
            /\ genCalls' = 0
            /\ raw' = <<>>
            /\ output' = <<>>
            /\ verdict' = None
            /\ UNCHANGED <<unitState, cur, tests, genErr, sbVars>>
    /\ UNCHANGED <<startErr, fs, todo, clientCalls, outFiles>>

(***************************************************************************)
(* runTestsAndCoverage, lines 199-293.                                     *)
(***************************************************************************)
\* a step of the sandbox fails: its error is the result, and the deferred
\* removal runs next
SbFail(err, pass) ==
    /\ sbErr' = err
    /\ passed' = pass
    /\ pc' = "sb_defer"

\* lines 204-208: os.MkdirTemp picks a name that does not exist; the removal is
\* deferred only after it succeeded
SbMkdirTemp ==
    /\ pc = "sb_mkdtemp"
    /\ \/ /\ sbErr' = "mkdtemp"
          /\ pc' = "sb_ret"
          /\ UNCHANGED <<dirs, tempDir>>
       \/ \E d \in TempDirs \ dirs :
             /\ tempDir' = d
             /\ dirs' = dirs \cup {d}
             /\ pc' = "sb_write"
             /\ UNCHANGED sbErr
    /\ UNCHANGED <<mainVars, genVars, steps, gcovOut, passed, coverage>>

\* lines 211-214: the test text is written into the sandbox
SbWriteTest ==
    /\ pc = "sb_write"
    /\ \/ SbFail("write-test", FALSE)
       \/ /\ pc' = "sb_copysrc"
          /\ UNCHANGED <<sbErr, passed>>
    /\ UNCHANGED <<mainVars, genVars, dirs, tempDir, steps, gcovOut, coverage>>

\* lines 217-220: the source file is copied into the sandbox
SbCopySource ==
    /\ pc = "sb_copysrc"
    /\ \/ SbFail("copy-source", FALSE)
       \/ /\ pc' = "sb_copyhdr"
          /\ UNCHANGED <<sbErr, passed>>
    /\ UNCHANGED <<mainVars, genVars, dirs, tempDir, steps, gcovOut, coverage>>

\* lines 223-225: the header of the source file, when there is one to copy
HeaderToCopy(sourceFile) ==
    IF HasExt(sourceFile, ".cpp") /\ ReplaceFirst(sourceFile, ".cpp", ".h") \in fs
    THEN ReplaceFirst(sourceFile, ".cpp", ".h")
    ELSE NoPath

\* lines 223-230: the header is copied if it exists
SbCopyHeader ==
    /\ pc = "sb_copyhdr"
    /\ \/ /\ HeaderToCopy(SourceFile(cur)) # NoPath
          /\ SbFail("copy-header", FALSE)
       \/ /\ pc' = "sb_compile"
          /\ UNCHANGED <<sbErr, passed>>
    /\ UNCHANGED <<mainVars, genVars, dirs, tempDir, steps, gcovOut, coverage>>

\* lines 233-254: g++; a non-zero exit is the error "compilation failed"
SbCompile ==
    /\ pc = "sb_compile"
    /\ \/ /\ SbFail("compile", FALSE)
          /\ UNCHANGED steps
       \/ /\ steps' = steps \cup {"compile"}
          /\ pc' = "sb_run"
          /\ UNCHANGED <<sbErr, passed>>
    /\ UNCHANGED <<mainVars, genVars, dirs, tempDir, gcovOut, coverage>>

\* lines 257-264: the test binary; a non-zero exit is the error "tests failed"
SbRun ==
    /\ pc = "sb_run"
    /\ \/ /\ SbFail("run", FALSE)
          /\ UNCHANGED steps
       \/ /\ steps' = steps \cup {"run"}
          /\ pc' = "sb_gcov"
          /\ UNCHANGED <<sbErr, passed>>
    /\ UNCHANGED <<mainVars, genVars, dirs, tempDir, gcovOut, coverage>>

\* lines 267-273: gcov; its failure returns passed = true with the error
SbGcov ==
    /\ pc = "sb_gcov"
    /\ \/ /\ SbFail("gcov", RanBeforeToolError)
          /\ UNCHANGED <<steps, gcovOut>>
       \/ \E r \in PipelineReports :
             /\ gcovOut' = r
             /\ steps' = steps \cup {"gcov"}
             /\ pc' = "sb_gate"
             /\ UNCHANGED <<sbErr, passed>>
    /\ UNCHANGED <<mainVars, genVars, dirs, tempDir, coverage>>

\* lines 276-292: the report is parsed and compared with the threshold
SbGate ==
    /\ pc = "sb_gate"
    /\ \E result \in {CoverageGate(gcovOut)} :
          /\ passed' = result.passed
          /\ coverage' = result.coverage
          /\ sbErr' = result.err
    /\ pc' = "sb_defer"
    /\ UNCHANGED <<mainVars, genVars, dirs, tempDir, steps, gcovOut>>

\* the removal left out
RemoveAll_Nothing(existing, dir) == existing

\* line 208: os.RemoveAll(tempDir)
RemoveAll(existing, dir) == existing \ {dir}

\* line 208: the deferred removal runs as the function returns
SbDefer ==
    /\ pc = "sb_defer"
    /\ dirs' = RemoveAll(dirs, tempDir)
    /\ pc' = "sb_ret"
    /\ UNCHANGED <<mainVars, genVars, tempDir, steps, gcovOut, passed, coverage, sbErr>>

\* the error of runTestsAndCoverage ignored: only passed is looked at
MayPersist_IgnoresErr(err, pass) == pass

\* lines 376-383: main goes on to the file write only without an error and
\* with passed
MayPersist(err, pass) == err = None /\ pass

\* a failed sandbox run that sends the unit back to the generation client
AfterSandboxError_Regenerate == "gen_list"

\* line 378 (`continue`): where main goes on after a failed sandbox run
AfterSandboxError == "loop"

\* lines 375-391: main receives (passed, coverage, err)
SbReturn ==
    /\ pc = "sb_ret"
    /\ IF MayPersist(sbErr, passed)
       THEN /\ pc' = "persist"
            /\ UNCHANGED <<unitState, cur, genVars, tempDir, steps, gcovOut, passed,
                           coverage, sbErr>>
       ELSE /\ pc' = AfterSandboxError
            /\ EndIteration("Failed")
    /\ UNCHANGED <<startErr, fs, todo, clientCalls, outFiles, dirs>>

\* the text written inside a code fence
WrittenText_Fenced == <<FENCE, CPP, NL>> \o tests \o <<NL, FENCE>>

\* line 392: the content main hands to os.WriteFile
WrittenText == tests

\* lines 392-398: os.WriteFile to the output path; a failure is only logged
Persist ==
    /\ pc = "persist"
    /\ \/ /\ outFiles' = [o \in DOMAIN outFiles \cup {TestFile(cur)} |->
                             IF o = TestFile(cur) THEN WrittenText ELSE outFiles[o]]
          /\ EndIteration("Persisted")
       \/ /\ EndIteration("Failed")
          /\ UNCHANGED outFiles
    /\ pc' = "loop"
    /\ UNCHANGED <<startErr, fs, todo, clientCalls, dirs>>

Next ==
    \/ Connect \/ ReadCodebase \/ MkdirTests
    \/ NextUnit \/ Finish \/ PairingCheck
    \/ ListModels \/ Attempt \/ GenReturn
    \/ SbMkdirTemp \/ SbWriteTest \/ SbCopySource \/ SbCopyHeader
    \/ SbCompile \/ SbRun \/ SbGcov \/ SbGate \/ SbDefer \/ SbReturn
    \/ Persist

Spec == Init /\ [][Next]_vars

\* main is one thread that runs until it returns or exits
FairSpec == Spec /\ WF_vars(Next)

TypeOK ==
    /\ pc \in {"start", "read", "mkdir", "fatal", "loop", "done", "pairing", "gen_list",
               "gen_attempt", "gen_ret", "sb_mkdtemp", "sb_write", "sb_copysrc",
               "sb_copyhdr", "sb_compile", "sb_run", "sb_gcov", "sb_gate", "sb_defer",
               "sb_ret", "persist"}
    /\ fs \subseteq Paths
    /\ todo \subseteq fs
    /\ cur \in Paths \cup {NoPath}
    /\ dirs \subseteq TempDirs

(***************************************************************************)
(* The validator alone: a normalized output of the corpus is validated.    *)
(***************************************************************************)
Idle ==
    /\ startErr = None
    /\ fs = {}
    /\ todo = {}
    /\ cur = NoPath
    /\ unitState = [p \in Paths |-> "Undiscovered"]
    /\ clientCalls = [p \in Paths |-> 0]
    /\ outFiles = <<>>
    /\ dirs = {}

ValInit ==
    /\ pc = "validate"
    /\ Idle
    /\ listing = <<>>
    /\ availableModels = <<>>
    /\ req = NoRequest
    /\ debugWrite = NoWrite
    /\ mi = 0
    /\ attempt = 0
    /\ genCalls = 0
    /\ raw = <<>>
    /\ output \in Corpus
    /\ verdict = None
    /\ tests = <<>>
    /\ genErr = None
    /\ SbReset

\* lines 131-192 applied to output
ValCheck ==
    /\ pc = "validate"
    /\ verdict' = Validate(output)
    /\ pc' = "validated"
    /\ UNCHANGED <<mainVars, listing, availableModels, req, debugWrite, mi, attempt,
                   genCalls, raw, output, tests, genErr, sbVars>>

ValSpec == ValInit /\ [][ValCheck]_vars

(***************************************************************************)
(* The coverage gate alone: a report of the coverage tool is parsed and    *)
(* compared with the threshold.                                            *)
(***************************************************************************)
PctChars == {"0", "7", "8", "9", "."}

RECURSIVE Strings(_, _)
\* the sequences over S of length n
Strings(S, n) ==
    IF n = 0 THEN {<<>>} ELSE {<<c>> \o t : c \in S, t \in Strings(S, n - 1)}

Percentages == UNION {Strings(PctChars, n) : n \in 1..MaxPctLen}

GateReports ==
    {Report(p) : p \in Percentages}
    \cup {<<"Lines executed:">> \o p \o <<"%", NL>> : p \in Strings(PctChars, 2)}
    \cup {<<"Lines executed:", "% of ", "1", NL>>, <<"No executable lines", NL>>}
    \cup {Report(p) \o Report(q) : p \in Strings(PctChars, 2), q \in Strings(PctChars, 2)}

CovInit ==
    /\ pc = "sb_gate"
    /\ Idle
    /\ GenReset
    /\ tempDir = NoDir
    /\ steps = {"compile", "run", "gcov"}
    /\ gcovOut \in GateReports
    /\ passed = FALSE
    /\ coverage = Zero
    /\ sbErr = None

CovSpec == CovInit /\ [][SbGate]_vars

(***************************************************************************)
(* Claims about the output validator (checked under ValSpec).              *)
(***************************************************************************)
\* the seven predicates of the validator, as the specification words them
LongEnough(s)      == ByteLen(s) >= 250
MissingIncludes(s) == {i \in 1..4 : ~Contains(s, <<Includes[i]>>)}
HasTestKeyword(s)  == \E i \in 1..Len(s) : s[i] = "TEST"
CompleteBodies(s)  == ~IncompleteTest(s)
FourTests(s)       == Cardinality(Occurrences(s, <<"TEST", "(", "CalculatorTest", ",">>)) = 4
CallsBoth(s)       == Contains(s, <<"add", "(">>) /\ Contains(s, <<"subtract", "(">>)
Balanced(s)        ==
    Cardinality({i \in 1..Len(s) : s[i] = "{"}) = Cardinality({i \in 1..Len(s) : s[i] = "}"})

\* the rules violated by s, numbered in the order of the specification
Violated(s) ==
    {k \in 1..7 :
        \/ k = 1 /\ ~LongEnough(s)
        \/ k = 2 /\ MissingIncludes(s) # {}
        \/ k = 3 /\ ~HasTestKeyword(s)
        \/ k = 4 /\ ~CompleteBodies(s)
        \/ k = 5 /\ ~FourTests(s)
        \/ k = 6 /\ ~CallsBoth(s)
        \/ k = 7 /\ ~Balanced(s)}

IncludeCodes ==
    <<"missing-include-gtest", "missing-include-cmath", "missing-include-stdexcept",
      "missing-include-example">>

RuleCodes ==
    <<"too-short", "missing-include", "missing-TEST-macro", "incomplete-macro-body",
      "wrong-test-count", "missing-symbol", "unbalanced-braces">>

\* the reason code of a verdict: the four include messages are one code
ReasonCode(v) == IF \E i \in 1..4 : v = IncludeCodes[i] THEN "missing-include" ELSE v

Min(S) == CHOOSE x \in S : \A y \in S : x <= y

\* C5: the validator accepts a normalized output if and only if all seven
\* predicates hold; an output that violates any predicate is rejected.
C5_AcceptsIffAllSeven ==
    pc = "validated" =>
        /\ (verdict = "accepted") <=>
              /\ LongEnough(output)
              /\ MissingIncludes(output) = {}
              /\ HasTestKeyword(output)
              /\ CompleteBodies(output)
              /\ FourTests(output)
              /\ CallsBoth(output)
              /\ Balanced(output)
        /\ Violated(output) # {} => verdict # "accepted"

\* an output that violates exactly one predicate (the brace balance) is rejected
C5_Witness ==
    /\ pc = "validated"
    /\ Violated(output) = {7}
    /\ verdict # "accepted"

\* C6 as stated: an output that misses a required include is rejected with the
\* missing-include code of a missing include, whatever else it contains.
C6_Original ==
    (pc = "validated" /\ MissingIncludes(output) # {}) =>
        \E i \in MissingIncludes(output) : verdict = IncludeCodes[i]

\* C6, amended: an output that misses a required include is always rejected;
\* the reason is the missing-include code of the first missing include (in the
\* order gtest, cmath, stdexcept, example.h) when the output has at least 250
\* bytes, and too-short otherwise.
C6_MissingIncludeRejected ==
    (pc = "validated" /\ MissingIncludes(output) # {}) =>
        /\ verdict # "accepted"
        /\ LongEnough(output) => verdict = IncludeCodes[Min(MissingIncludes(output))]
        /\ ~LongEnough(output) => verdict = "too-short"

\* an output of 250 bytes or more that misses two includes and violates later
\* rules too is rejected for the first missing include
C6_Witness ==
    /\ pc = "validated"
    /\ LongEnough(output)
    /\ MissingIncludes(output) = {2, 4}
    /\ ~FourTests(output)
    /\ verdict = "missing-include-cmath"

\* C7: the rejection reason is that of the first violated rule in the order
\* too-short, missing-include, missing-TEST-macro, incomplete-macro-body,
\* wrong-test-count, missing-symbol, unbalanced-braces; an output with unequal
\* brace counts that passes the six earlier rules is rejected as
\* unbalanced-braces.
C7_FirstViolatedRule ==
    pc = "validated" =>
        /\ Violated(output) # {} => ReasonCode(verdict) = RuleCodes[Min(Violated(output))]
        /\ Violated(output) = {} => verdict = "accepted"
        /\ (~Balanced(output) /\ Violated(output) \cap (1..6) = {}) =>
               verdict = "unbalanced-braces"

\* an output that violates the rules 4, 5 and 7 is rejected for rule 4
C7_Witness ==
    /\ pc = "validated"
    /\ Violated(output) = {4, 5, 7}
    /\ verdict = "incomplete-macro-body"

(***************************************************************************)
(* Claims about the coverage gate (checked under CovSpec).                 *)
(***************************************************************************)
\* the gate has run on a report whose percentage was found and parsed
GateParsed ==
    /\ pc = "sb_defer"
    /\ FindPercent(gcovOut) # <<>>
    /\ ParseFloat(FindPercent(gcovOut)).ok

\* C8: the threshold is inclusive at 80: with p the parsed percentage, the gate
\* accepts iff p >= 80 and rejects as below-threshold, carrying p, iff p < 80;
\* 79.99 is rejected and 80.00 is accepted.
C8_ThresholdInclusive ==
    /\ GateParsed =>
          LET p == ParseFloat(FindPercent(gcovOut))
          IN  /\ (passed /\ sbErr = None) <=> p.num >= 80 * p.den
              /\ (~passed /\ sbErr = "below-threshold") <=> p.num < 80 * p.den
              /\ sbErr \in {None, "below-threshold"}
              /\ coverage = [num |-> p.num, den |-> p.den]
    /\ (pc = "sb_defer" /\ gcovOut = Report(<<"7", "9", ".", "9", "9">>)) =>
          /\ ~passed
          /\ sbErr = "below-threshold"
          /\ coverage = [num |-> 7999, den |-> 100]
    /\ (pc = "sb_defer" /\ gcovOut = Report(<<"8", "0", ".", "0", "0">>)) =>
          /\ passed
          /\ sbErr = None
          /\ coverage = [num |-> 8000, den |-> 100]

\* the report of exactly 80.00% has been accepted
C8_Witness ==
    /\ pc = "sb_defer"
    /\ gcovOut = Report(<<"8", "0", ".", "0", "0">>)
    /\ passed
    /\ sbErr = None

(***************************************************************************)
(* Claims about the pipeline (checked under Spec, C4 under FairSpec).      *)
(***************************************************************************)
Terminal == {"Persisted", "Skipped", "Failed"}

\* positions inside runTestsAndCoverage while it owns its directory
InSandbox ==
    pc \in {"sb_write", "sb_copysrc", "sb_copyhdr", "sb_compile", "sb_run", "sb_gcov",
            "sb_gate", "sb_defer"}

\* C1: test text is written to the output path of a unit only if that same
\* text was accepted by the validator for that unit, the compile step
\* succeeded, the run step exited with zero and the coverage report parsed to
\* a percentage >= 80; nothing else writes an output file.
C1_PersistOnlyAfterAllGates ==
    [][/\ outFiles' # outFiles =>
             /\ pc = "persist"
             /\ cur \in Paths
             /\ DOMAIN outFiles' = DOMAIN outFiles \cup {TestFile(cur)}
             /\ \A o \in DOMAIN outFiles : o # TestFile(cur) => outFiles'[o] = outFiles[o]
             /\ outFiles'[TestFile(cur)] = tests
             /\ Validate(tests) = "accepted"
             /\ {"compile", "run"} \subseteq steps
             /\ sbErr = None
             /\ FindPercent(gcovOut) # <<>>
             /\ ParseFloat(FindPercent(gcovOut)).ok
             /\ ParseFloat(FindPercent(gcovOut)).num >= 80 * ParseFloat(FindPercent(gcovOut)).den
             /\ coverage.num >= 80 * coverage.den
       \* the text main holds is the one the validator accepted for this unit
       /\ (tests' # tests /\ tests' # <<>>) =>
             /\ pc = "gen_attempt"
             /\ cur \in Paths
             /\ cur' = cur
             /\ verdict' = "accepted"
             /\ tests' = output'
       /\ cur' # cur => tests' = <<>>
      ]_vars

\* a unit has been persisted: its output file holds text
C1_Witness ==
    \E u \in Paths :
        /\ unitState[u] = "Persisted"
        /\ TestFile(u) \in DOMAIN outFiles
        /\ outFiles[TestFile(u)] # <<>>

\* C2: one call of the generation client with N candidate backends issues at
\* most 3 x N generation calls; an errored and a rejected attempt each consume
\* one of the 3 attempts of the current backend; when no attempt is accepted
\* the client returns "exhausted" after exactly 3 x N calls.
C2_AttemptBudget ==
    /\ pc \in {"gen_attempt", "gen_ret"} /\ availableModels # <<>> =>
          genCalls <= 3 * Len(availableModels)
    /\ pc = "gen_attempt" =>
          /\ mi \in 1..Len(availableModels)
          /\ attempt \in 1..3
          /\ genCalls = 3 * (mi - 1) + (attempt - 1)
    /\ (pc = "gen_ret" /\ genErr = "exhausted") =>
          /\ genCalls = 3 * Len(availableModels)
          /\ verdict # "accepted"
          /\ tests = <<>>
    /\ (pc = "gen_ret" /\ availableModels # <<>> /\ verdict # "accepted") =>
          genErr = "exhausted"

\* two backends were tried three times each and the client returns "exhausted"
C2_Witness ==
    /\ pc = "gen_ret"
    /\ genErr = "exhausted"
    /\ Len(availableModels) = 2
    /\ genCalls = 6

\* C3: the first accepted attempt ends the client at once: no generation call
\* follows it, on this or any other backend, and the text returned is that
\* attempt's normalized output.
C3_FirstAcceptedReturns ==
    verdict = "accepted" =>
        /\ pc = "gen_ret"
        /\ genErr = None
        /\ raw \in Responses
        /\ output = Normalize(raw)
        /\ tests = output
        /\ genCalls = 3 * (mi - 1) + attempt

\* accepted on the second attempt of the first of two backends: two calls
C3_Witness ==
    /\ verdict = "accepted"
    /\ Len(availableModels) = 2
    /\ mi = 1
    /\ attempt = 2
    /\ genCalls = 2
    /\ raw = FencedGood
    /\ tests = TrimSpace(GoodText)
    /\ tests # raw

\* C4: once the loop over the units runs, every discovered unit eventually
\* reaches a terminal state, however the other units ended; no failure of a
\* unit ends the run (only the startup can end it).
C4_EveryUnitTerminates ==
    (pc = "loop") ~> (pc = "done" /\ \A u \in fs : unitState[u] \in Terminal)

\* the run is over with one unit failed and another one persisted
C4_Witness ==
    /\ pc = "done"
    /\ \E u \in fs : unitState[u] = "Failed"
    /\ \E u \in fs : unitState[u] = "Persisted"

\* C9: whenever runTestsAndCoverage returns, the directory it allocated no
\* longer exists; while it runs it owns exactly the one directory it
\* allocated, which did not exist before.
C9_SandboxRemoved ==
    /\ pc = "sb_ret" => tempDir \notin dirs
    /\ InSandbox => tempDir \in TempDirs /\ dirs = {tempDir}
    /\ ~InSandbox => dirs = {}

\* runTestsAndCoverage returns a compile failure and its directory is gone
C9_Witness ==
    /\ pc = "sb_ret"
    /\ sbErr = "compile"
    /\ tempDir \in TempDirs
    /\ dirs = {}

\* C10: the generation client is invoked at most once per unit, and after the
\* compile, run or coverage stage failed for a unit nothing but the cleanup and
\* the move to the next unit happens: no generation call, compile or run.
C10_NoRetryAfterFailure ==
    [][/\ \A u \in Paths : clientCalls'[u] <= 1
       /\ (cur \in Paths /\ sbErr # None) =>
             /\ pc' \in {"sb_defer", "sb_ret", "loop"}
             /\ clientCalls' = clientCalls
             /\ genCalls' = genCalls
             /\ steps' \subseteq steps
       /\ \A u \in Paths :
             unitState[u] \in Terminal => unitState'[u] = unitState[u] /\ cur' # u
      ]_vars

\* the compile stage failed for a unit whose client was called once
C10_Witness ==
    /\ pc = "sb_ret"
    /\ sbErr = "compile"
    /\ cur \in Paths
    /\ clientCalls[cur] = 1
    /\ steps = {}

(***************************************************************************)
(* The stages of one unit.                                                 *)
(***************************************************************************)
AllSteps == {"compile", "run", "gcov"}

\* C11: within one unit the stages run in the order pairing check,
\* generation with validation, compile, run, coverage measurement,
\* persistence; a stage is entered only from the stage before it and only
\* when that one succeeded; a unit that is Skipped, Failed or Persisted keeps
\* that state and is never the current unit again.
C11_StageOrder ==
    [][/\ pc' = "pairing" => pc = "loop" /\ unitState[cur'] = "Discovered"
       /\ cur' \in Paths => unitState'[cur'] = "Discovered"
       /\ pc' = "gen_list" => pc = "pairing" /\ ~CompanionMissing(cur)
       /\ pc' = "gen_attempt" => pc \in {"gen_list", "gen_attempt"}
       /\ pc' = "sb_mkdtemp" => pc = "gen_ret" /\ genErr = None /\ verdict = "accepted"
       /\ pc' = "sb_compile" => pc = "sb_copyhdr" /\ steps = {}
       /\ pc' = "sb_run" => pc = "sb_compile" /\ steps' = {"compile"}
       /\ pc' = "sb_gcov" => pc = "sb_run" /\ steps' = {"compile", "run"}
       /\ pc' = "sb_gate" => pc = "sb_gcov" /\ steps' = AllSteps
       /\ pc' = "persist" => pc = "sb_ret" /\ steps = AllSteps /\ sbErr = None /\ passed
       /\ \A u \in Paths :
             unitState[u] \in Terminal => unitState'[u] = unitState[u] /\ cur' # u
      ]_vars

\* the last unit of the run passed every stage and is about to be written
C11_Witness ==
    /\ pc = "persist"
    /\ todo = {}
    /\ unitState[cur] = "Discovered"
    /\ steps = AllSteps
    /\ \E u \in fs : unitState[u] \in Terminal

(***************************************************************************)
(* Pairing.                                                                *)
(***************************************************************************)
\* the companion of a unit: the same path with the extension at its end
\* exchanged (the .cpp of a .h, the .h of a .cpp)
Partner(path) ==
    [path EXCEPT ![Len(path)] = IF path[Len(path)] = ".h" THEN ".cpp" ELSE ".h"]

\* C12: a unit whose companion file is absent is skipped: no call of the
\* generation client is made for it, it never occupies a stage after the
\* pairing check, and it ends in no state but Skipped.
C12_SkippedWithoutCompanion ==
    \A u \in fs :
        Partner(u) \notin fs =>
            /\ clientCalls[u] = 0
            /\ cur = u => pc = "pairing"
            /\ unitState[u] \in {"Undiscovered", "Discovered", "Skipped"}

\* a unit of a plain directory without its companion has been skipped
C12_Witness ==
    /\ pc = "loop"
    /\ \E u \in fs \cap PlainPaths :
          /\ Partner(u) \notin fs
          /\ unitState[u] = "Skipped"
          /\ clientCalls[u] = 0

(***************************************************************************)
(* Infrastructure errors.                                                  *)
(***************************************************************************)
\* no unit has been touched: none was taken from the map, no generation call
\* was made, nothing was written
NothingProcessed ==
    /\ cur = NoPath
    /\ \A u \in Paths : unitState[u] \notin Terminal /\ clientCalls[u] = 0
    /\ outFiles = <<>>

\* C13 as stated: a failure of the model listing or of the creation of the
\* output directory ends the run at once, at startup as well as while a
\* unit is being processed.
C13_Original ==
    [][/\ startErr' \in {"connect", "mkdir"} => pc' = "fatal" /\ NothingProcessed'
       /\ (pc = "gen_list" /\ genErr' = "list-failed") => pc' = "fatal"
       /\ (pc = "gen_ret" /\ genErr = "list-failed") => pc' = "fatal"
      ]_vars

\* C13, amended: a failure of the model listing or of the creation of the
\* output directory at startup ends the run before any unit is processed, and
\* the run ends in this way for no other reason; a failure of the model
\* listing inside the generation client fails that unit only: main goes on
\* with the loop and the units still to come stay to be processed.
C13_StartupErrorsFatal ==
    [][/\ startErr' \in {"connect", "mkdir"} => pc' = "fatal" /\ NothingProcessed'
       /\ pc' = "fatal" => startErr' # None /\ pc \in {"start", "read", "mkdir"}
       /\ (pc = "gen_ret" /\ genErr = "list-failed") =>
             /\ pc' = "loop"
             /\ unitState' = [unitState EXCEPT ![cur] = "Failed"]
             /\ todo' = todo
             /\ \A u \in Paths : clientCalls'[u] <= 1
      ]_vars

\* the model listing failed inside the generation client while another unit
\* is still to come
C13_Witness ==
    /\ pc = "gen_ret"
    /\ genErr = "list-failed"
    /\ todo # {}
    /\ ~CompanionMissing(CHOOSE u \in todo : TRUE)

(***************************************************************************)
(* Failures of the coverage stage.                                         *)
(***************************************************************************)
CoverageErrors == {"gcov", "gcov-parse", "percent-parse", "below-threshold"}

\* C14: a report without the `Lines executed: X% of Y` pattern gives the
\* parse error, never the below-threshold rejection; the below-threshold
\* rejection is given only for a report that has the pattern, with the
\* percentage measured; after either of them, or after a failure of the
\* coverage tool, the run step had succeeded, the unit fails, nothing is
\* written for it and main goes on with the loop.
C14_CoverageFailuresTerminal ==
    [][/\ (pc = "sb_gate" /\ FindPercent(gcovOut) = <<>>) =>
             sbErr' = "gcov-parse" /\ sbErr' # "below-threshold"
       /\ (pc = "sb_gate" /\ sbErr' = "below-threshold") =>
             /\ FindPercent(gcovOut) # <<>>
             /\ coverage' = [num |-> ParseFloat(FindPercent(gcovOut)).num,
                             den |-> ParseFloat(FindPercent(gcovOut)).den]
       /\ (pc = "sb_ret" /\ sbErr \in CoverageErrors) =>
             /\ {"compile", "run"} \subseteq steps
             /\ pc' = "loop"
             /\ unitState' = [unitState EXCEPT ![cur] = "Failed"]
             /\ outFiles' = outFiles
      ]_vars

\* runTestsAndCoverage returns the parse error for a report without the
\* pattern, after the tests ran
C14_Witness ==
    /\ pc = "sb_ret"
    /\ sbErr = "gcov-parse"
    /\ FindPercent(gcovOut) = <<>>
    /\ "run" \in steps

(***************************************************************************)
(* The generation request.                                                 *)
(***************************************************************************)
\* C15: during one call of the generation client every request sent has the
\* prompt built from the unit's code and the fixed options; no attempt,
\* whether it ended in a transport error or in a rejection, changes the
\* prompt or the options; the only field of the request that changes is the
\* backend identifier, and it is the backend being tried.
C15_PromptUnchanged ==
    [][pc = "gen_attempt" =>
          /\ req.Prompt = Prompt(Content(cur))
          /\ req.Options = Options
          /\ req.Model = availableModels[mi]
          /\ req'.Prompt = req.Prompt
          /\ req'.Options = req.Options
          /\ pc' = "gen_attempt" => req'.Model = availableModels[mi']
      ]_vars

\* the second backend is being tried, after transport errors or rejections
\* on the first one, the latest attempt having been rejected
C15_Witness ==
    /\ pc = "gen_attempt"
    /\ mi = 2
    /\ attempt = 2
    /\ verdict = "too-short"
    /\ req.Model # Primary
    /\ req.Prompt = Prompt(Content(cur))

(***************************************************************************)
(* The persisted content.                                                  *)
(***************************************************************************)
CalcPair     == {<<"calc", ".h">>, <<"calc", ".cpp">>}
CalcTestFile == <<"calc", "_test.cpp">>
ValidAnswers == {r \in Responses : Verdict[r] = "accepted"}

\* C16: the text main holds for a unit is the normalized answer the
\* validator accepted; the sandbox stages leave it unchanged; when the unit is
\* persisted its output path holds exactly that text and no other file of
\* the output location changes.  When the run over the pair calc.h/calc.cpp
\* ends with a unit persisted, the output location holds exactly one file,
\* calc_test.cpp, whose content is the normalization of a valid answer of
\* the backend.
C16_PersistedContent ==
    [][/\ (pc = "gen_attempt" /\ pc' = "gen_ret" /\ genErr' = None) =>
             /\ raw' \in ValidAnswers
             /\ tests' = Normalize(raw')
       /\ (InSandbox \/ pc \in {"sb_mkdtemp", "sb_ret"}) => (pc' = "loop" \/ tests' = tests)
       /\ (pc = "persist" /\ unitState'[cur] = "Persisted") =>
             /\ DOMAIN outFiles' = DOMAIN outFiles \cup {TestFile(cur)}
             /\ outFiles'[TestFile(cur)] = tests
             /\ \A o \in DOMAIN outFiles \ {TestFile(cur)} : outFiles'[o] = outFiles[o]
       /\ (pc' = "done" /\ fs = CalcPair /\ \E u \in fs : unitState[u] = "Persisted") =>
             /\ DOMAIN outFiles' = {CalcTestFile}
             /\ outFiles'[CalcTestFile] \in {Normalize(r) : r \in ValidAnswers}
      ]_vars

\* the run over calc.h and calc.cpp is over, both were persisted, and the one
\* file of the output location holds the normalized reference answer
C16_Witness ==
    /\ pc = "done"
    /\ fs = CalcPair
    /\ \A u \in fs : unitState[u] = "Persisted"
    /\ DOMAIN outFiles = {CalcTestFile}
    /\ outFiles[CalcTestFile] = Normalize(FencedGood)
    /\ outFiles[CalcTestFile] # FencedGood

(***************************************************************************)
(* Debug artifacts.                                                        *)
(***************************************************************************)
\* the debug file is the one of this backend and this attempt number
KeyedBy(write, model, a) ==
    /\ write # NoWrite
    /\ write.name[2] = model
    /\ write.name[4] = a

\* C17 as stated: every attempt issued writes the artifact of its backend
\* and attempt number, a transport error included.
C17_Original ==
    [][pc = "gen_attempt" => KeyedBy(debugWrite', availableModels[mi], attempt)]_vars

\* C17, amended: an attempt whose generation call returned an answer writes
\* the normalized answer to the artifact of its backend and attempt number,
\* whatever the verdict of the validator; an attempt that ended in a transport
\* error writes no artifact.
C17_ArtifactPerAnswer ==
    [][pc = "gen_attempt" =>
          IF verdict' = "error"
          THEN debugWrite' = NoWrite
          ELSE /\ KeyedBy(debugWrite', availableModels[mi], attempt)
               /\ \E r \in Responses :
                     /\ debugWrite'.data = Normalize(r)
                     /\ verdict' = Validate(Normalize(r))
      ]_vars

\* the first attempt on the second backend was rejected and its artifact
\* written
C17_Witness ==
    /\ pc = "gen_attempt"
    /\ mi = 2
    /\ attempt = 2
    /\ verdict = "too-short"
    /\ KeyedBy(debugWrite, availableModels[2], 1)
    /\ debugWrite.data = Normalize(Apology)

(***************************************************************************)
(* The order of the backends.                                              *)
(***************************************************************************)
NotPrimary(m) == m # Primary

ToolErrors == {"gcov", "gcov-parse", "percent-parse"}

\* C19: when runTestsAndCoverage returns, a nil error comes only with
\* passed = true and a coverage of at least 80; passed = false comes only with
\* an error, so main never sees a nil error with passed = false; a failure of
\* the coverage tool or of the parsing of its report comes with passed = true
\* and an error.
C19_ReturnValues ==
    pc = "sb_ret" =>
        /\ sbErr = None => passed /\ coverage.num >= 80 * coverage.den
        /\ ~passed => sbErr # None
        /\ ~(sbErr = None /\ ~passed)
        /\ sbErr \in ToolErrors => passed
        /\ sbErr \in ToolErrors \cup {"mkdtemp", "write-test", "copy-source", "copy-header",
                                       "compile", "run"} => coverage = Zero

\* runTestsAndCoverage returns passed = true together with the error of the
\* coverage tool
C19_Witness ==
    /\ pc = "sb_ret"
    /\ sbErr = "gcov"
    /\ passed
    /\ coverage = Zero

(***************************************************************************)
(* The two units of a pair.                                                *)
(***************************************************************************)
\* the headers under ./codebase whose implementation file is there too
PairedHeaders == {h \in fs : HasExt(h, ".h") /\ Partner(h) \in fs}

\* C20: the header and the implementation file of a pair are two units;
\* neither is skipped, each gets its own call of the generation client (one
\* each when the run is over), the sandbox run of either is made against the
\* .cpp of the pair, and both have the same output path, so that the output
\* location never holds more than one file for the pair.
C20_PairProcessedTwice ==
    \A h \in PairedHeaders :
        /\ unitState[h] # "Skipped" /\ unitState[Partner(h)] # "Skipped"
        /\ pc = "done" => clientCalls[h] = 1 /\ clientCalls[Partner(h)] = 1
        /\ (cur \in {h, Partner(h)} /\ (InSandbox \/ pc = "sb_ret")) =>
              SourceFile(cur) = Partner(h)
        /\ (cur \in {h, Partner(h)} /\ pc = "persist") =>
              TestFile(cur) = TestFile(h) /\ TestFile(cur) = TestFile(Partner(h))
        /\ Cardinality(DOMAIN outFiles \cap {TestFile(h), TestFile(Partner(h))}) <= 1

\* the run over util.h and util.cpp is over: both were processed and
\* persisted, and one file was written
C20_Witness ==
    /\ pc = "done"
    /\ fs = {<<"util", ".h">>, <<"util", ".cpp">>}
    /\ \A u \in fs : unitState[u] = "Persisted" /\ clientCalls[u] = 1
    /\ DOMAIN outFiles = {<<"util", "_test.cpp">>}

====
